---------------------------- MODULE Spec2Model ----------------------------
(***************************************************************************)
(* A model of korasi's remote session engine (src/src/ssh.rs), of the path  *)
(* mapping it uploads with (src/src/util.rs), of the command string the    *)
(* Run command sends (src/src/lib.rs) and of the tagging and listing of    *)
(* instances (src/src/ec2.rs).                                             *)
(*                                                                         *)
(* Paths are strings, a string is a sequence of one-character strings, so  *)
(* that str::strip_prefix, Chars::next and PathBuf::join act on characters *)
(* as they do in the source.                                               *)
(***************************************************************************)
EXTENDS Integers, Sequences, FiniteSets, TLC

\* ------------------------------------------------------------------------
\* Bounds of the model
\* ------------------------------------------------------------------------

\* Deepest source root, in path components below the filesystem root.
MaxSrcDepth == 2

\* Deepest remote destination folder, in path components.
MaxDstDepth == 1

\* Most channel messages the remote sends during one exec.
MaxMsgs == 3

\* Most non-empty reads of local stdin during one exec.
MaxStdinData == 2

\* Most calls of Session::close on one session.
MaxCloseCalls == 2

\* Most instances in the account.
MaxInstances == 2

\* Largest argument list of the Run command: its arguments' lengths, plus
\* one for each argument.
MaxCmdSize == 4

\* ------------------------------------------------------------------------
\* Strings and paths (std::path)
\* ------------------------------------------------------------------------

SEP == "/"

\* Option: None, and Some(v).
None == [some |-> FALSE, val |-> <<>>]

Some(v) == [some |-> TRUE, val |-> v]

\* File and directory names the model's file systems are built from.
Names == { <<"a">>, <<"h">>, <<"a", "b">> }

RECURSIVE PathsOfDepth(_)
PathsOfDepth(n) ==
    IF n = 0 THEN { <<>> }
    ELSE { Append(p, c) : p \in PathsOfDepth(n - 1), c \in Names }

\* Component sequences of at most n components.
PathsUpTo(n) == UNION { PathsOfDepth(k) : k \in 0..n }

Front(s) == SubSeq(s, 1, Len(s) - 1)

\* The string of a canonical absolute path given by its components:
\* <<>> is "/", <<a, b>> is "/a/b".
RECURSIVE ToStr(_)
ToStr(comps) ==
    IF comps = <<>> THEN <<SEP>>
    ELSE IF Len(comps) = 1 THEN <<SEP>> \o comps[1]
    ELSE ToStr(Front(comps)) \o <<SEP>> \o comps[Len(comps)]

\* Path::components of a path string without "." or "..": the non-empty
\* pieces between separators.  Path and PathBuf compare by components, so a
\* trailing separator makes no difference: "/h/" and "/h" are the same path.
RECURSIVE SplitFrom(_, _, _)
SplitFrom(s, i, cur) ==
    IF i > Len(s) THEN (IF cur = <<>> THEN <<>> ELSE <<cur>>)
    ELSE IF s[i] = SEP
         THEN (IF cur = <<>> THEN <<>> ELSE <<cur>>) \o SplitFrom(s, i + 1, <<>>)
         ELSE SplitFrom(s, i + 1, Append(cur, s[i]))

Components(s) == SplitFrom(s, 1, <<>>)

IsAbsolute(s) == s # <<>> /\ s[1] = SEP

\* Path::parent of an absolute path: the path without its last component,
\* None for the filesystem root.
Parent(s) ==
    IF Components(s) = <<>> THEN None ELSE Some(ToStr(Front(Components(s))))

\* PathBuf::join (PathBuf::push): an absolute argument replaces the base;
\* otherwise a separator is added unless the base is empty or ends in one,
\* then the argument is appended (an empty argument leaves "base/").
Join(base, rel) ==
    IF IsAbsolute(rel) THEN rel
    ELSE IF base # <<>> /\ base[Len(base)] # SEP THEN base \o <<SEP>> \o rel
    ELSE base \o rel

\* str::strip_prefix: the rest of s after p, None when s does not start
\* with p.
StripPrefix(s, p) ==
    IF Len(p) <= Len(s) /\ SubSeq(s, 1, Len(p)) = p
    THEN Some(SubSeq(s, Len(p) + 1, Len(s)))
    ELSE None

\* Chars::next followed by Chars::as_str: the string without its first
\* character; the empty string stays empty.
DropFirstChar(s) == IF s = <<>> THEN <<>> ELSE Tail(s)

\* ------------------------------------------------------------------------
\* util.rs: calc_prefix, biject_paths
\* ------------------------------------------------------------------------

\* Option::unwrap_or
UnwrapOr(opt, default) == IF opt.some THEN opt.val ELSE default

\* calc_prefix falling back to the path itself: unwrap_or(&pth).
calc_prefix_keep_root(pth) == UnwrapOr(Parent(pth), pth)

\* pth.parent().unwrap_or(Path::new("")).to_path_buf()
calc_prefix(pth) == UnwrapOr(Parent(pth), <<>>)

\* The entries ignore::Walk yields for src_path over a tree given as the
\* relative paths of its entries in traversal order (the root first):
\* each entry's path is src_path joined with its relative path.
RECURSIVE JoinAll(_, _)
JoinAll(base, comps) ==
    IF comps = <<>> THEN base ELSE JoinAll(Join(base, Head(comps)), Tail(comps))

Walk(src_path, t) ==
    [i \in 1..Len(t) |-> [path   |-> JoinAll(src_path, t[i].rel),
                          is_dir |-> t[i].is_dir,
                          err    |-> t[i].err]]

\* biject_entry without rel_pth.next(): the separator after the prefix
\* stays in front of the relative path.
biject_entry_keeps_separator(entry, prefix, dst_folder) ==
    LET stripped == StripPrefix(entry.path, prefix)
    IN  IF entry.err
        THEN [panicked |-> FALSE, is_err |-> TRUE, local_pth |-> <<>>,
              transformed |-> <<>>, is_dir |-> FALSE]
        ELSE [panicked    |-> ~stripped.some,
              is_err      |-> FALSE,
              local_pth   |-> entry.path,
              transformed |-> IF stripped.some
                              THEN Join(dst_folder, stripped.val)
                              ELSE <<>>,
              is_dir      |-> entry.is_dir]

\* The closure biject_paths maps over the walk: an Err item stays an Err
\* item (is_err), an Ok entry is mapped; panicked when
\* strip_prefix(prefix).unwrap() fails.
biject_entry(entry, prefix, dst_folder) ==
    LET stripped == StripPrefix(entry.path, prefix)
    IN  IF entry.err
        THEN [panicked |-> FALSE, is_err |-> TRUE, local_pth |-> <<>>,
              transformed |-> <<>>, is_dir |-> FALSE]
        ELSE [panicked    |-> ~stripped.some,
              is_err      |-> FALSE,
              local_pth   |-> entry.path,
              transformed |-> IF stripped.some
                              THEN Join(dst_folder, DropFirstChar(stripped.val))
                              ELSE <<>>,
              is_dir      |-> entry.is_dir]

\* biject_paths: the mapped walk, collected; a panic in the closure unwinds
\* out of the whole call and no vector is returned.
biject_paths(src_path, t, prefix, dst_folder) ==
    LET w == Walk(src_path, t)
        r == [i \in 1..Len(w) |-> biject_entry(w[i], prefix, dst_folder)]
    IN  IF \E i \in 1..Len(r) : r[i].panicked
        THEN [panicked |-> TRUE, entries |-> <<>>]
        ELSE [panicked |-> FALSE, entries |-> r]

\* ------------------------------------------------------------------------
\* State
\* ------------------------------------------------------------------------

VARIABLES
    \* path mapping as upload drives it (ssh.rs 195-206)
    ppc,         \* "prefix" | "biject" | "done"
    src_path,    \* canonical absolute source root
    dst_folder,  \* canonical absolute remote destination
    tree,        \* the source tree: entries in walk order
    prefix,      \* result of calc_prefix
    mapped       \* result of biject_paths

pathVars == <<ppc, src_path, dst_folder, tree, prefix, mapped>>

VARIABLES
    \* Session::connect, then the Run command's Session::exec (lib.rs 188-225)
    pc,             \* where the program is, in connect, exec or upload
    session,        \* the Session connect returned, and what the remote
                    \* thinks of the connection
    connect_result, \* what connect did: [kind, cause], kind "none" | "ok" |
                    \* "err" | "panic"
    exec_result,    \* what exec returned: [kind, code, err]
    stdin_closed,   \* exec's local of that name
    code,           \* exec's local of that name: Option<u32>
    chan,           \* channel messages in flight from the remote
    chan_ended,     \* the remote ended the stream: wait() yields None
                    \* once chan is drained
    stdout,         \* bytes written to descriptor 1
    stderr,         \* bytes written to descriptor 2
    log,            \* the calls exec made, in order
    \* history, read only by the properties
    sent,           \* every message the remote sent, in order
    iters,          \* select! branches run so far
    eof_at,         \* messages received when stdin read 0 bytes, else -1
    io_err,         \* the I/O call that failed, else "none"
    err_iter        \* iters when it failed, else -1

execVars == <<pc, session, connect_result, exec_result, stdin_closed, code,
              chan, chan_ended, stdout, stderr, log, sent, iters, eof_at,
              io_err, err_iter>>

VARIABLES
    \* the connection behind the Session (russh's client::Handle)
    conn,           \* "up" | "closing" (disconnect queued) | "down" (the
                    \* session task has ended)
    close_log,      \* what each call of Session::close returned
    \* history, read only by the properties
    conn_at_open    \* conn when a sub-channel was last asked for, else "none"

sessVars == <<conn, close_log, conn_at_open>>

VARIABLES
    \* Session::upload (ssh.rs 172-240), as the Upload command calls it
    up_result,      \* what upload returned: [kind, code, err]
    sftp,           \* the transfer sub-channel: "none" | "open" | "closed"
    idx,            \* the walk entry the for loop is at, 0 before the loop
    ulog            \* the calls upload made and what each answered, in
                    \* order, with the lines it logged

upVars == <<up_result, sftp, idx, ulog>>

VARIABLES
    \* the remote file system upload writes to, and upload called again
    remote,         \* what exists remotely: a set of [path, kind, data]
    run,            \* 1 in the first call of upload, 2 in the second
    first,          \* what the first call returned and left remotely
    fault           \* a call of the running upload failed though the remote
                    \* and local state allowed it to succeed

syncVars == <<remote, run, first, fault>>

VARIABLES
    \* EC2Impl and the instances of the account (ec2.rs)
    epc,            \* "new" before EC2Impl::new, then "ready"
    custom_tag,     \* EC2Impl's field of that name: Option<String>
    instances,      \* the account's instances: [id, tag, state, mine]
    listing         \* what describe_instance last returned: Option of ids

ec2Vars == <<epc, custom_tag, instances, listing>>

VARIABLES
    \* the command line of the Run command (lib.rs 214-223)
    cpc,            \* "args" before the command string is built, then "sent"
    cmd_args,       \* the command's arguments
    command         \* the string handed to Session::exec

cmdVars == <<cpc, cmd_args, command>>

\* The state the session actions do not touch.
restVars == <<ec2Vars, cmdVars>>

vars == <<pathVars, execVars, sessVars, upVars, syncVars, restVars>>

\* ------------------------------------------------------------------------
\* Path mapping: calc_prefix, then biject_paths
\* ------------------------------------------------------------------------

\* Source trees: the root directory, a sub-directory n1 with a file n2 in
\* it, and a file n3 beside the sub-directory.
\* The two files hold different bytes, of different lengths; every entry
\* is read by the walk without an error.
Trees ==
    { << [rel |-> <<>>,       is_dir |-> TRUE,  data |-> <<>>,     err |-> FALSE],
         [rel |-> <<n1>>,     is_dir |-> TRUE,  data |-> <<>>,     err |-> FALSE],
         [rel |-> <<n1, n2>>, is_dir |-> FALSE, data |-> <<1, 2>>, err |-> FALSE],
         [rel |-> <<n3>>,     is_dir |-> FALSE, data |-> <<3>>,    err |-> FALSE] >>
      : n1 \in Names, n2 \in Names, n3 \in Names }

PathInit ==
    /\ ppc = "prefix"
    /\ src_path \in { ToStr(c) : c \in PathsUpTo(MaxSrcDepth) }
    /\ dst_folder \in { ToStr(c) : c \in PathsUpTo(MaxDstDepth) }
    /\ tree \in { t \in Trees : t[2].rel # t[4].rel }
    /\ prefix = <<>>
    /\ mapped = [panicked |-> FALSE, entries |-> <<>>]

PathIdle ==
    /\ ppc = "idle"
    /\ src_path = <<SEP>>
    /\ dst_folder = <<SEP>>
    /\ tree = <<>>
    /\ prefix = <<>>
    /\ mapped = [panicked |-> FALSE, entries |-> <<>>]

\* ssh.rs 195: let prefix = calc_prefix(src_path.clone())?;
CalcPrefix ==
    /\ ppc = "prefix"
    /\ prefix' = calc_prefix(src_path)
    /\ ppc' = "biject"
    /\ UNCHANGED <<src_path, dst_folder, tree, mapped>>
    /\ UNCHANGED <<execVars, sessVars, upVars>>
    /\ UNCHANGED <<syncVars, restVars>>

\* ssh.rs 202-206: biject_paths(src_path, prefix, &dst_abs_path)
BijectPaths ==
    /\ ppc = "biject"
    /\ mapped' = biject_paths(src_path, tree, prefix, dst_folder)
    /\ ppc' = IF mapped'.panicked THEN "panicked" ELSE "done"
    /\ UNCHANGED <<src_path, dst_folder, tree, prefix>>
    /\ UNCHANGED <<execVars, sessVars, upVars>>
    /\ UNCHANGED <<syncVars, restVars>>

PathNext == CalcPrefix \/ BijectPaths

\* ------------------------------------------------------------------------
\* ssh.rs: Session::connect and Session::exec, as the Run command calls them
\* ------------------------------------------------------------------------

\* Bytes the remote writes to the command's stdout and stderr.
StdoutBytes == {1, 2}

StderrBytes == {3}

\* Exit statuses (u32) the remote process ends with.
ExitCodes == {0, 1}

Msg(t, v) == [type |-> t, val |-> v]

\* russh::ChannelMsg, as far as exec's match tells the variants apart; Eof
\* and Close stand for the variants of the `_` arm.
RemoteMsgs ==
    { Msg("Data", b) : b \in StdoutBytes }
    \cup { Msg("ExtendedData", b) : b \in StderrBytes }
    \cup { Msg("ExitStatus", c) : c \in ExitCodes }
    \cup { Msg("Eof", 0), Msg("Close", 0) }

NoResult == [kind |-> "none", code |-> -1, err |-> "none"]

Ok(c) == [kind |-> "ok", code |-> c, err |-> "none"]

Err(e) == [kind |-> "err", code |-> -1, err |-> e]

Panic(e) == [kind |-> "panic", code |-> -1, err |-> e]

NoCode == [some |-> FALSE, val |-> 0]

SomeCode(c) == [some |-> TRUE, val |-> c]

NoSession == [exists |-> FALSE, authenticated |-> FALSE]

\* What Session::connect did: kind is "none" | "ok" | "err" | "panic", cause
\* what the remote or the local system answered.
NotConnected == [kind |-> "none", cause |-> "none"]

Connected(k, c) == [kind |-> k, cause |-> c]

RECURSIVE CountOf(_, _)
CountOf(s, x) ==
    IF s = <<>> THEN 0
    ELSE (IF Head(s) = x THEN 1 ELSE 0) + CountOf(Tail(s), x)

\* Messages channel.wait() has yielded so far.
Received == Len(sent) - Len(chan)

ExecInit ==
    /\ pc = "connect"
    /\ session = NoSession
    /\ connect_result = NotConnected
    /\ exec_result = NoResult
    /\ stdin_closed = FALSE
    /\ code = NoCode
    /\ chan = <<>>
    /\ chan_ended = FALSE
    /\ stdout = <<>>
    /\ stderr = <<>>
    /\ log = <<>>
    /\ sent = <<>>
    /\ iters = 0
    /\ eof_at = -1
    /\ io_err = "none"
    /\ err_iter = -1

\* The exec variables of a run that never connects.
ExecIdle ==
    /\ pc = "idle"
    /\ session = NoSession
    /\ connect_result = NotConnected
    /\ exec_result = NoResult
    /\ stdin_closed = FALSE
    /\ code = NoCode
    /\ chan = <<>>
    /\ chan_ended = FALSE
    /\ stdout = <<>>
    /\ stderr = <<>>
    /\ log = <<>>
    /\ sent = <<>>
    /\ iters = 0
    /\ eof_at = -1
    /\ io_err = "none"
    /\ err_iter = -1

loopVars == <<stdin_closed, code, chan, chan_ended, stdout, stderr, sent,
              iters, eof_at>>

\* Session::connect (ssh.rs 68-88).  russh's connect failing hits expect,
\* load_secret_key failing hits unwrap; authenticate_publickey answers
\* Err (propagated by `?`), Ok(true) or, when the remote rejects the key,
\* Ok(false); the boolean is dropped and Ok(Self { session }) returned.
\* On Ok the Run command goes on to exec (lib.rs 210-223), the Upload
\* command to upload (lib.rs 181-183).
Connect ==
    /\ pc = "connect"
    /\ \/ \E cause \in {"transport", "identity"} :
              /\ connect_result' = Connected("panic", cause)
              /\ pc' = "panicked"
              /\ UNCHANGED session
       \/ /\ connect_result' = Connected("err", "auth_error")
          /\ pc' = "end"
          /\ UNCHANGED session
       \/ \E accepted \in BOOLEAN :
              /\ connect_result' =
                     Connected("ok", IF accepted THEN "accepted" ELSE "rejected")
              /\ session' = [exists |-> TRUE, authenticated |-> accepted]
              /\ pc' \in {"raw_mode", "up_canon"}
    /\ UNCHANGED <<exec_result, log, io_err, err_iter>>
    /\ UNCHANGED loopVars
    /\ UNCHANGED <<pathVars, sessVars, upVars>>
    /\ UNCHANGED <<syncVars, restVars>>

\* lib.rs 212: std::io::stdout().into_raw_mode()?
RawMode ==
    /\ pc = "raw_mode"
    /\ pc' \in {"exec_open", "end"}
    /\ UNCHANGED <<session, connect_result, exec_result, log, io_err, err_iter>>
    /\ UNCHANGED loopVars
    /\ UNCHANGED <<pathVars, sessVars, upVars>>
    /\ UNCHANGED <<syncVars, restVars>>

\* exec returns r.
Returns(r) == exec_result' = r /\ pc' = "exec_returned"

\* A call before the event loop fails and `?` returns the error.
PreludeFails(op) == io_err' = op /\ err_iter' = iters /\ Returns(Err(op))

\* A call in the event loop fails and `?` (or return Err) returns the error.
Fails(op) == io_err' = op /\ err_iter' = iters + 1 /\ Returns(Err(op))

NoFail == UNCHANGED <<io_err, err_iter>>

\* A channel can be opened: the remote opens one only on an authenticated
\* connection, and the Handle reaches the session task only while it runs.
CanOpenChannel == session.authenticated /\ conn = "up"

\* ssh.rs 92: self.channel_open_session().await?
ExecOpenChannel ==
    /\ pc = "exec_open"
    /\ log' = Append(log, "open")
    /\ conn_at_open' = conn
    /\ \/ CanOpenChannel /\ pc' = "term_size" /\ NoFail /\ UNCHANGED exec_result
       \/ PreludeFails("channel_open")
    /\ UNCHANGED <<session, connect_result>>
    /\ UNCHANGED loopVars
    /\ UNCHANGED <<conn, close_log>>
    /\ UNCHANGED <<pathVars, upVars>>
    /\ UNCHANGED <<syncVars, restVars>>

\* ssh.rs 95: termion::terminal_size()?
ExecTermSize ==
    /\ pc = "term_size"
    /\ \/ pc' = "request_pty" /\ NoFail /\ UNCHANGED exec_result
       \/ PreludeFails("terminal_size")
    /\ UNCHANGED <<session, connect_result, log>>
    /\ UNCHANGED loopVars
    /\ UNCHANGED <<pathVars, sessVars, upVars>>
    /\ UNCHANGED <<syncVars, restVars>>

\* ExecRequestPty left out: the command is sent on a channel without a
\* pseudo-terminal.
ExecRequestPty_Skipped ==
    /\ pc = "request_pty"
    /\ pc' = "exec_cmd"
    /\ NoFail
    /\ UNCHANGED <<session, connect_result, exec_result, log>>
    /\ UNCHANGED loopVars
    /\ UNCHANGED <<pathVars, sessVars, upVars>>
    /\ UNCHANGED <<syncVars, restVars>>

\* ssh.rs 97-107: channel.request_pty(false, ...).await?
ExecRequestPty ==
    /\ pc = "request_pty"
    /\ log' = Append(log, "pty")
    /\ \/ pc' = "exec_cmd" /\ NoFail /\ UNCHANGED exec_result
       \/ PreludeFails("request_pty")
    /\ UNCHANGED <<session, connect_result>>
    /\ UNCHANGED loopVars
    /\ UNCHANGED <<pathVars, sessVars, upVars>>
    /\ UNCHANGED <<syncVars, restVars>>

\* ssh.rs 109: channel.exec(true, command).await?
ExecSendCommand ==
    /\ pc = "exec_cmd"
    /\ log' = Append(log, "exec")
    /\ \/ pc' = "open_fds" /\ NoFail /\ UNCHANGED exec_result
       \/ PreludeFails("channel_exec")
    /\ UNCHANGED <<session, connect_result>>
    /\ UNCHANGED loopVars
    /\ UNCHANGED <<pathVars, sessVars, upVars>>
    /\ UNCHANGED <<syncVars, restVars>>

\* ssh.rs 111-113: tokio_fd::AsyncFd::try_from(0 | 1 | 2)?
ExecOpenFds ==
    /\ pc = "open_fds"
    /\ \/ pc' = "loop" /\ NoFail /\ UNCHANGED exec_result
       \/ PreludeFails("async_fd")
    /\ UNCHANGED <<session, connect_result, log>>
    /\ UNCHANGED loopVars
    /\ UNCHANGED <<pathVars, sessVars, upVars>>
    /\ UNCHANGED <<syncVars, restVars>>

\* The remote sends one more message on the channel.
RemoteSend ==
    /\ pc \in {"open_fds", "loop"}
    /\ ~chan_ended
    /\ Len(sent) < MaxMsgs
    /\ \E m \in RemoteMsgs :
          /\ chan' = Append(chan, m)
          /\ sent' = Append(sent, m)
    /\ UNCHANGED <<pc, session, connect_result, exec_result, stdin_closed, code,
                   chan_ended, stdout, stderr, log, iters, eof_at, io_err,
                   err_iter>>
    /\ UNCHANGED <<pathVars, sessVars, upVars>>
    /\ UNCHANGED <<syncVars, restVars>>

\* The message stream ends (the connection is lost or torn down): wait()
\* yields None once the messages in flight are received.
RemoteEnd ==
    /\ pc \in {"open_fds", "loop"}
    /\ ~chan_ended
    /\ chan_ended' = TRUE
    /\ UNCHANGED <<pc, session, connect_result, exec_result, stdin_closed, code,
                   chan, stdout, stderr, log, sent, iters, eof_at, io_err,
                   err_iter>>
    /\ UNCHANGED <<pathVars, sessVars, upVars>>
    /\ UNCHANGED <<syncVars, restVars>>

\* The stdin branch of select! is taken (ssh.rs 121, `if !stdin_closed`).
StdinBranch == pc = "loop" /\ ~stdin_closed

\* StdinEof leaving the loop at local end-of-file, as `while !stdin_closed`
\* would: code is still None and code.expect panics.
StdinEof_LeavesLoop ==
    /\ StdinBranch
    /\ iters' = iters + 1
    /\ stdin_closed' = TRUE
    /\ eof_at' = Received
    /\ log' = log \o <<"read", "eof">>
    /\ \/ NoFail /\ exec_result' = Panic("expect") /\ pc' = "panicked"
       \/ Fails("channel_eof")
    /\ UNCHANGED <<session, connect_result, code, chan, chan_ended, stdout,
                   stderr, sent>>
    /\ UNCHANGED <<pathVars, sessVars, upVars>>
    /\ UNCHANGED <<syncVars, restVars>>

\* ssh.rs 123-126: Ok(0) => { stdin_closed = true; channel.eof().await?; }
StdinEof ==
    /\ StdinBranch
    /\ iters' = iters + 1
    /\ stdin_closed' = TRUE
    /\ eof_at' = Received
    /\ log' = log \o <<"read", "eof">>
    /\ \/ NoFail /\ UNCHANGED <<pc, exec_result>>
       \/ Fails("channel_eof")
    /\ UNCHANGED <<session, connect_result, code, chan, chan_ended, stdout,
                   stderr, sent>>
    /\ UNCHANGED <<pathVars, sessVars, upVars>>
    /\ UNCHANGED <<syncVars, restVars>>

\* ssh.rs 128: Ok(n) => channel.data(&buf[..n]).await?
StdinData ==
    /\ StdinBranch
    /\ CountOf(log, "data") < MaxStdinData
    /\ iters' = iters + 1
    /\ log' = log \o <<"read", "data">>
    /\ \/ NoFail /\ UNCHANGED <<pc, exec_result>>
       \/ Fails("channel_data")
    /\ UNCHANGED <<session, connect_result, stdin_closed, code, chan,
                   chan_ended, stdout, stderr, sent, eof_at>>
    /\ UNCHANGED <<pathVars, sessVars, upVars>>
    /\ UNCHANGED <<syncVars, restVars>>

\* ssh.rs 129: Err(e) => return Err(e.into())
StdinErr ==
    /\ StdinBranch
    /\ iters' = iters + 1
    /\ log' = Append(log, "read")
    /\ Fails("stdin_read")
    /\ UNCHANGED <<session, connect_result, stdin_closed, code, chan,
                   chan_ended, stdout, stderr, sent, eof_at>>
    /\ UNCHANGED <<pathVars, sessVars, upVars>>
    /\ UNCHANGED <<syncVars, restVars>>

\* The channel branch of select! is taken with message type t
\* (ssh.rs 132, `Some(msg) = channel.wait()`): the message is received.
ChannelBranch(types) ==
    /\ pc = "loop"
    /\ chan # <<>>
    /\ Head(chan).type \in types
    /\ chan' = Tail(chan)
    /\ iters' = iters + 1

\* OnData with the write's and the flush's result dropped (`let _ =`): the
\* loop goes on after a failed call.
OnData_IgnoresError ==
    /\ ChannelBranch({"Data"})
    /\ \/ /\ stdout' = Append(stdout, Head(chan).val)
          /\ NoFail
       \/ /\ UNCHANGED stdout
          /\ io_err' = "stdout_write" /\ err_iter' = iters + 1
       \/ /\ stdout' = Append(stdout, Head(chan).val)
          /\ io_err' = "stdout_flush" /\ err_iter' = iters + 1
    /\ UNCHANGED <<pc, exec_result>>
    /\ UNCHANGED <<session, connect_result, stdin_closed, code, chan_ended,
                   stderr, log, sent, eof_at>>
    /\ UNCHANGED <<pathVars, sessVars, upVars>>
    /\ UNCHANGED <<syncVars, restVars>>

\* ssh.rs 135-138: Data => stdout.write_all(data).await?; stdout.flush().await?
OnData ==
    /\ ChannelBranch({"Data"})
    /\ \/ /\ stdout' = Append(stdout, Head(chan).val)
          /\ NoFail /\ UNCHANGED <<pc, exec_result>>
       \/ /\ UNCHANGED stdout
          /\ Fails("stdout_write")
       \/ /\ stdout' = Append(stdout, Head(chan).val)
          /\ Fails("stdout_flush")
    /\ UNCHANGED <<session, connect_result, stdin_closed, code, chan_ended,
                   stderr, log, sent, eof_at>>
    /\ UNCHANGED <<pathVars, sessVars, upVars>>
    /\ UNCHANGED <<syncVars, restVars>>

\* ssh.rs 147-150: ExtendedData => stderr.write_all(data).await?;
\* stderr.flush().await?
OnExtendedData ==
    /\ ChannelBranch({"ExtendedData"})
    /\ \/ /\ stderr' = Append(stderr, Head(chan).val)
          /\ NoFail /\ UNCHANGED <<pc, exec_result>>
       \/ /\ UNCHANGED stderr
          /\ Fails("stderr_write")
       \/ /\ stderr' = Append(stderr, Head(chan).val)
          /\ Fails("stderr_flush")
    /\ UNCHANGED <<session, connect_result, stdin_closed, code, chan_ended,
                   stdout, log, sent, eof_at>>
    /\ UNCHANGED <<pathVars, sessVars, upVars>>
    /\ UNCHANGED <<syncVars, restVars>>

\* OnExitStatus without the break: code is set and the loop goes on.
OnExitStatus_NoBreak ==
    /\ ChannelBranch({"ExitStatus"})
    /\ code' = SomeCode(Head(chan).val)
    /\ IF stdin_closed
       THEN /\ UNCHANGED log
            /\ NoFail /\ UNCHANGED <<pc, exec_result>>
       ELSE /\ log' = Append(log, "eof")
            /\ \/ NoFail /\ UNCHANGED <<pc, exec_result>>
               \/ Fails("channel_eof")
    /\ UNCHANGED <<session, connect_result, stdin_closed, chan_ended, stdout,
                   stderr, sent, eof_at>>
    /\ UNCHANGED <<pathVars, sessVars, upVars>>
    /\ UNCHANGED <<syncVars, restVars>>

\* OnExitStatus without the `if !stdin_closed` guard: eof is sent again.
OnExitStatus_AlwaysEof ==
    /\ ChannelBranch({"ExitStatus"})
    /\ code' = SomeCode(Head(chan).val)
    /\ log' = Append(log, "eof")
    /\ \/ NoFail /\ Returns(Ok(code'.val))
       \/ Fails("channel_eof")
    /\ UNCHANGED <<session, connect_result, stdin_closed, chan_ended, stdout,
                   stderr, sent, eof_at>>
    /\ UNCHANGED <<pathVars, sessVars, upVars>>
    /\ UNCHANGED <<syncVars, restVars>>

\* ssh.rs 139-145 and 157: ExitStatus => { code = Some(exit_status);
\* if !stdin_closed { channel.eof().await?; } break; } ... Ok(code.expect(..))
OnExitStatus ==
    /\ ChannelBranch({"ExitStatus"})
    /\ code' = SomeCode(Head(chan).val)
    /\ IF stdin_closed
       THEN /\ UNCHANGED log
            /\ NoFail /\ Returns(Ok(code'.val))
       ELSE /\ log' = Append(log, "eof")
            /\ \/ NoFail /\ Returns(Ok(code'.val))
               \/ Fails("channel_eof")
    /\ UNCHANGED <<session, connect_result, stdin_closed, chan_ended, stdout,
                   stderr, sent, eof_at>>
    /\ UNCHANGED <<pathVars, sessVars, upVars>>
    /\ UNCHANGED <<syncVars, restVars>>

\* OnOther taking Eof and Close for the end of the command:
\* `_ => { code = Some(0); break; }`.
OnOther_Breaks ==
    /\ ChannelBranch({"Eof", "Close"})
    /\ code' = SomeCode(0)
    /\ NoFail
    /\ Returns(Ok(0))
    /\ UNCHANGED <<session, connect_result, stdin_closed, chan_ended, stdout,
                   stderr, log, sent, eof_at>>
    /\ UNCHANGED <<pathVars, sessVars, upVars>>
    /\ UNCHANGED <<syncVars, restVars>>

\* ssh.rs 151: _ => {}
OnOther ==
    /\ ChannelBranch({"Eof", "Close"})
    /\ NoFail
    /\ UNCHANGED <<pc, session, connect_result, exec_result, stdin_closed, code,
                   chan_ended, stdout, stderr, log, sent, eof_at>>
    /\ UNCHANGED <<pathVars, sessVars, upVars>>
    /\ UNCHANGED <<syncVars, restVars>>

\* ssh.rs 120-154: select! without an else branch panics when every branch
\* is disabled: stdin by its precondition, the channel because wait()
\* yielded None and the pattern Some(msg) did not match.
SelectAllDisabled ==
    /\ pc = "loop"
    /\ stdin_closed
    /\ chan = <<>>
    /\ chan_ended
    /\ exec_result' = Panic("select")
    /\ pc' = "panicked"
    /\ UNCHANGED <<session, connect_result, log, io_err, err_iter>>
    /\ UNCHANGED loopVars
    /\ UNCHANGED <<pathVars, sessVars, upVars>>
    /\ UNCHANGED <<syncVars, restVars>>

\* ------------------------------------------------------------------------
\* ssh.rs: the connection, Session::close
\* ------------------------------------------------------------------------

SessInit ==
    /\ conn = "up"
    /\ close_log = <<>>
    /\ conn_at_open = "none"

\* The session task ends: the remote or the network dropped the connection,
\* or the disconnect a close queued has been carried out.  From "up" it is
\* taken where the program is about to use the connection or has returned
\* from exec (inside exec's loop a lost connection is RemoteEnd).
SessionEnds ==
    /\ session.exists
    /\ \/ conn = "closing"
       \/ conn = "up" /\ pc \in {"raw_mode", "exec_open", "up_open_sftp", "exec_returned"}
    /\ conn' = "down"
    /\ UNCHANGED <<close_log, conn_at_open>>
    /\ UNCHANGED <<pathVars, execVars, upVars>>
    /\ UNCHANGED <<syncVars, restVars>>

\* Session::close (ssh.rs 243-248), called after exec returned Ok
\* (lib.rs 223-224); close is public, and a caller may call it again.
\* Handle::disconnect sends the request to the session task and fails with
\* SendError once that task has ended; `?` returns the error.
SessionClose ==
    /\ pc = "exec_returned"
    /\ exec_result.kind = "ok"
    /\ Len(close_log) < MaxCloseCalls
    /\ IF conn = "down"
       THEN /\ close_log' = Append(close_log, "err")
            /\ UNCHANGED conn
       ELSE /\ close_log' = Append(close_log, "ok")
            /\ conn' = "closing"
    /\ UNCHANGED conn_at_open
    /\ UNCHANGED <<pathVars, execVars, upVars>>
    /\ UNCHANGED <<syncVars, restVars>>

\* ------------------------------------------------------------------------
\* ssh.rs: Session::upload, as the Upload command calls it
\* ------------------------------------------------------------------------

UploadInit ==
    /\ up_result = NoResult
    /\ sftp = "none"
    /\ idx = 0
    /\ ulog = <<>>
    /\ remote = {}
    /\ run = 1
    /\ first = [result |-> NoResult, remote |-> {}]
    /\ fault = FALSE

\* One line of ulog: the call op made for walk entry ent (0: none) on path,
\* and its answer.
U(op, ent, path, res) == [op |-> op, ent |-> ent, path |-> path, res |-> res]

\* The source trees of an upload: /a, /a/h and /h below the source root,
\* all read by the walk, or with an error in place of /a/h.
UploadTrees ==
    LET read == { t \in Trees : /\ t[2].rel = << <<"a">> >>
                                /\ t[3].rel = << <<"a">>, <<"h">> >>
                                /\ t[4].rel = << <<"h">> >> }
    IN  read \cup { [t EXCEPT ![3].err = TRUE] : t \in read }

\* upload returns r.
UpReturns(r) == up_result' = r /\ pc' = "up_returned"

\* upload panics in the call named.
UpPanics(op) == up_result' = Panic(op) /\ pc' = "panicked"

UpGoes(to) == pc' = to /\ UNCHANGED up_result

\* The exec variables other than pc.
execRest == <<session, connect_result, exec_result, stdin_closed, code, chan,
              chan_ended, stdout, stderr, log, sent, iters, eof_at, io_err,
              err_iter>>

\* The remote file system: what is at the path of components p.
KindAt(fs, p) ==
    IF \E f \in fs : f.path = p
    THEN (CHOOSE f \in fs : f.path = p).kind
    ELSE "none"

DataAt(fs, p) ==
    IF \E f \in fs : f.path = p
    THEN (CHOOSE f \in fs : f.path = p).data
    ELSE <<>>

\* fs with a directory or a file of the bytes given at p.
Put(fs, p, kind, data) ==
    { f \in fs : f.path # p } \cup { [path |-> p, kind |-> kind, data |-> data] }

\* The bytes File::open(pth) and read_to_end give: those of the tree's
\* file at that path.
LocalData(pth) ==
    LET i == CHOOSE i \in 1..Len(tree) : JoinAll(src_path, tree[i].rel) = pth
    IN  tree[i].data

\* A call failed that could have succeeded.
Faulty == fault' = TRUE

\* The state the upload actions before the loop leave alone.
NoRemoteChange == UNCHANGED <<remote, run, first>>

\* UploadCanonicalize going on with the path as given when it cannot be
\* canonicalized.
UploadCanonicalize_Fabricates ==
    /\ pc = "up_canon"
    /\ \E root \in { ToStr(c) : c \in PathsUpTo(MaxSrcDepth) }, t \in UploadTrees,
          res \in {"ok", "fail"} :
          /\ run = 2 => root = src_path /\ t = tree
          /\ src_path' = root
          /\ tree' = t
          /\ ulog' = Append(ulog, U("canonicalize_src", 0, root, res))
          /\ UpGoes("up_open_sftp")
    /\ UNCHANGED fault
    /\ NoRemoteChange
    /\ UNCHANGED <<ppc, dst_folder, prefix, mapped>>
    /\ UNCHANGED <<sftp, idx>>
    /\ UNCHANGED <<execRest, sessVars, restVars>>

\* ssh.rs 173-177: std::fs::canonicalize(src.unwrap_or(".")), bail on Err.
\* A second call is made with the same, unchanged source.
UploadCanonicalize ==
    /\ pc = "up_canon"
    /\ \/ \E root \in { ToStr(c) : c \in PathsUpTo(MaxSrcDepth) }, t \in UploadTrees :
              /\ run = 2 => root = src_path /\ t = tree
              /\ src_path' = root
              /\ tree' = t
              /\ ulog' = Append(ulog, U("canonicalize_src", 0, root, "ok"))
              /\ UpGoes("up_open_sftp")
              /\ UNCHANGED fault
       \/ /\ ulog' = Append(ulog, U("canonicalize_src", 0, <<>>, "fail"))
          /\ UpReturns(Err("canonicalize_src"))
          /\ fault' = (fault \/ run = 2)
          /\ UNCHANGED <<src_path, tree>>
    /\ NoRemoteChange
    /\ UNCHANGED <<ppc, dst_folder, prefix, mapped>>
    /\ UNCHANGED <<sftp, idx>>
    /\ UNCHANGED <<execRest, sessVars, restVars>>

\* ssh.rs 179 and 160-165: self.open_sftp_session().await?, where
\* channel_open_session().await.unwrap() and request_subsystem(..).unwrap()
\* panic and SftpSession::new's error is returned.
UploadOpenSftp ==
    /\ pc = "up_open_sftp"
    /\ conn_at_open' = conn
    /\ \/ /\ ulog' = Append(ulog, U("channel_open", 0, <<>>, "fail"))
          /\ UpPanics("channel_open")
          /\ Faulty
          /\ UNCHANGED sftp
       \/ /\ CanOpenChannel
          /\ ulog' = ulog \o << U("channel_open", 0, <<>>, "ok"),
                                U("request_subsystem", 0, <<>>, "fail") >>
          /\ UpPanics("request_subsystem")
          /\ Faulty
          /\ UNCHANGED sftp
       \/ /\ CanOpenChannel
          /\ ulog' = ulog \o << U("channel_open", 0, <<>>, "ok"),
                                U("request_subsystem", 0, <<>>, "ok"),
                                U("sftp_init", 0, <<>>, "fail") >>
          /\ UpReturns(Err("sftp_init"))
          /\ Faulty
          /\ UNCHANGED sftp
       \/ /\ CanOpenChannel
          /\ ulog' = ulog \o << U("channel_open", 0, <<>>, "ok"),
                                U("request_subsystem", 0, <<>>, "ok"),
                                U("sftp_init", 0, <<>>, "ok") >>
          /\ sftp' = "open"
          /\ UpGoes("up_check_dst")
          /\ UNCHANGED fault
    /\ NoRemoteChange
    /\ UNCHANGED idx
    /\ UNCHANGED <<conn, close_log>>
    /\ UNCHANGED <<execRest, pathVars, restVars>>

\* The destination is known to be a remote directory: an earlier call of
\* upload canonicalized it and nothing has changed since.
DstKnownDir == KindAt(remote, Components(dst_folder)) = "dir"

\* UploadCheckDst without the is_dir test.
UploadCheckDst_NoDirCheck ==
    /\ pc = "up_check_dst"
    /\ \/ /\ UNCHANGED <<ulog, fault>>
          /\ UpGoes("up_prefix")
       \/ \E kind \in {"dir", "file"} :
              /\ ulog' = Append(ulog, U("metadata", 0, <<>>, kind))
              /\ fault' = (fault \/ (kind = "file" /\ DstKnownDir))
              /\ UpGoes("up_prefix")
       \/ \E e \in {"not_found", "error"} :
              /\ ulog' = ulog \o << U("metadata", 0, <<>>, e),
                                    U("log_error", 0, <<>>, "ok") >>
              /\ fault' = (fault \/ DstKnownDir)
              /\ UpReturns(Ok(0))
    /\ NoRemoteChange
    /\ UNCHANGED <<sftp, idx>>
    /\ UNCHANGED <<execRest, pathVars, sessVars, restVars>>

\* ssh.rs 181-193: with a dst given, sftp.metadata(dst): Ok and a directory
\* goes on, Ok and not a directory bails, Err (not found, or anything else)
\* is logged and upload returns Ok(()).
UploadCheckDst ==
    /\ pc = "up_check_dst"
    /\ \/ /\ UNCHANGED <<ulog, fault>>
          /\ UpGoes("up_prefix")
       \/ /\ ulog' = Append(ulog, U("metadata", 0, <<>>, "dir"))
          /\ UNCHANGED fault
          /\ UpGoes("up_prefix")
       \/ /\ ulog' = Append(ulog, U("metadata", 0, <<>>, "file"))
          /\ fault' = (fault \/ DstKnownDir)
          /\ UpReturns(Err("dst_not_dir"))
       \/ \E e \in {"not_found", "error"} :
              /\ ulog' = ulog \o << U("metadata", 0, <<>>, e),
                                    U("log_error", 0, <<>>, "ok") >>
              /\ fault' = (fault \/ DstKnownDir)
              /\ UpReturns(Ok(0))
    /\ NoRemoteChange
    /\ UNCHANGED <<sftp, idx>>
    /\ UNCHANGED <<execRest, pathVars, sessVars, restVars>>

\* ssh.rs 195: let prefix = calc_prefix(src_path.clone())?; calc_prefix
\* always answers Ok.
UploadCalcPrefix ==
    /\ pc = "up_prefix"
    /\ prefix' = calc_prefix(src_path)
    /\ UpGoes("up_canon_dst")
    /\ UNCHANGED <<ppc, src_path, dst_folder, tree, mapped>>
    /\ UNCHANGED <<sftp, idx, ulog>>
    /\ UNCHANGED <<execRest, sessVars, syncVars, restVars>>

\* ssh.rs 196-199: sftp.canonicalize(dst or ".").await.expect(..): the
\* canonical path of the destination directory, the same in a second call.
UploadCanonDst ==
    /\ pc = "up_canon_dst"
    /\ \/ \E d \in { ToStr(c) : c \in PathsUpTo(MaxDstDepth) } :
              /\ DstKnownDir => d = dst_folder
              /\ dst_folder' = d
              /\ remote' = Put(remote, Components(d), "dir", <<>>)
              /\ ulog' = Append(ulog, U("canonicalize_dst", 0, d, "ok"))
              /\ UpGoes("up_biject")
              /\ UNCHANGED fault
       \/ /\ ulog' = Append(ulog, U("canonicalize_dst", 0, <<>>, "fail"))
          /\ UpPanics("canonicalize_dst")
          /\ Faulty
          /\ UNCHANGED <<dst_folder, remote>>
    /\ UNCHANGED <<run, first>>
    /\ UNCHANGED <<ppc, src_path, tree, prefix, mapped>>
    /\ UNCHANGED <<sftp, idx>>
    /\ UNCHANGED <<execRest, sessVars, restVars>>

\* ssh.rs 202-206: the walk is mapped and collected before the loop starts.
UploadBiject ==
    /\ pc = "up_biject"
    /\ mapped' = biject_paths(src_path, tree, prefix, dst_folder)
    /\ IF mapped'.panicked
       THEN UpPanics("strip_prefix") /\ UNCHANGED idx
       ELSE UpGoes("up_walk") /\ idx' = 1
    /\ UNCHANGED <<ppc, src_path, dst_folder, tree, prefix>>
    /\ UNCHANGED <<sftp, ulog>>
    /\ UNCHANGED <<execRest, sessVars, syncVars, restVars>>

\* The for loop is at an Ok entry of the kind given.
AtEntry(is_dir) ==
    /\ pc = "up_walk"
    /\ idx <= Len(mapped.entries)
    /\ ~mapped.entries[idx].is_err
    /\ mapped.entries[idx].is_dir = is_dir

\* The remote path of the entry the loop is at, and its components.
Combined == mapped.entries[idx].transformed

CombinedAt == Components(Combined)

\* UploadErrEntry with the walk's error returned by `?`.
UploadErrEntry_Aborts ==
    /\ pc = "up_walk"
    /\ idx <= Len(mapped.entries)
    /\ mapped.entries[idx].is_err
    /\ ulog' = Append(ulog, U("walk_error", idx, <<>>, "fail"))
    /\ UpReturns(Err("walk"))
    /\ UNCHANGED <<sftp, idx>>
    /\ UNCHANGED <<execRest, pathVars, sessVars, syncVars, restVars>>

\* ssh.rs 233: Err(err) => tracing::error!("ERROR: {}", err)
UploadErrEntry ==
    /\ pc = "up_walk"
    /\ idx <= Len(mapped.entries)
    /\ mapped.entries[idx].is_err
    /\ ulog' = ulog \o << U("walk_error", idx, <<>>, "fail"),
                          U("log_error", idx, <<>>, "ok") >>
    /\ idx' = idx + 1
    /\ UpGoes("up_walk")
    /\ UNCHANGED sftp
    /\ UNCHANGED <<execRest, pathVars, sessVars, syncVars, restVars>>

\* UploadDir with create_dir's error returned by `?`.
UploadDir_Propagates ==
    /\ AtEntry(TRUE)
    /\ \/ /\ KindAt(remote, CombinedAt) = "none"
          /\ ulog' = Append(ulog, U("mkdir", idx, Combined, "ok"))
          /\ remote' = Put(remote, CombinedAt, "dir", <<>>)
          /\ idx' = idx + 1
          /\ UpGoes("up_walk")
          /\ UNCHANGED fault
       \/ /\ ulog' = Append(ulog, U("mkdir", idx, Combined, "fail"))
          /\ fault' = (fault \/ KindAt(remote, CombinedAt) = "none")
          /\ UNCHANGED <<idx, remote>>
          /\ UpReturns(Err("mkdir"))
    /\ UNCHANGED <<run, first>>
    /\ UNCHANGED sftp
    /\ UNCHANGED <<execRest, pathVars, sessVars, restVars>>

\* ssh.rs 209-210: let _ = sftp.create_dir(combined).await; the remote
\* creates the directory only where nothing exists yet.
UploadDir ==
    /\ AtEntry(TRUE)
    /\ \/ /\ KindAt(remote, CombinedAt) = "none"
          /\ ulog' = Append(ulog, U("mkdir", idx, Combined, "ok"))
          /\ remote' = Put(remote, CombinedAt, "dir", <<>>)
          /\ UNCHANGED fault
       \/ /\ ulog' = Append(ulog, U("mkdir", idx, Combined, "fail"))
          /\ fault' = (fault \/ KindAt(remote, CombinedAt) = "none")
          /\ UNCHANGED remote
    /\ idx' = idx + 1
    /\ UpGoes("up_walk")
    /\ UNCHANGED <<run, first>>
    /\ UNCHANGED sftp
    /\ UNCHANGED <<execRest, pathVars, sessVars, restVars>>

\* The calls of ssh.rs 224-229 on an opened remote file, in order, with
\* what a failure of each does: unwrap panics, `let _ =` goes on.
FileCalls == <<"local_open", "local_read", "write", "sync", "shutdown">>

Unwrapped == {"local_open", "local_read", "write", "shutdown"}

\* The ulog lines of the calls 1..n of FileCalls for the entry at idx: the
\* n-th answers last, sync before it answers sync_res, the others "ok".
FileLines(n, last, sync_res) ==
    [i \in 1..n |-> U(FileCalls[i], idx, Combined,
                       IF i = n THEN last
                       ELSE IF FileCalls[i] = "sync" THEN sync_res ELSE "ok")]

\* The remote after open_with_flags(CREATE | TRUNCATE | WRITE) answered Ok
\* and the calls 1..n of FileCalls were made, the n-th answering last: the
\* file exists, empty, and holds the local bytes once write_all succeeded.
Written(n, last) ==
    Put(remote, CombinedAt, "file",
        IF n > 3 \/ (n = 3 /\ last = "ok")
        THEN LocalData(mapped.entries[idx].local_pth)
        ELSE <<>>)

\* The remote lets a file be opened for writing where no directory is.
CanOpenFile == KindAt(remote, CombinedAt) # "dir"

\* UploadFile with open_with_flags' error returned by `?`.
UploadFile_OpenFatal ==
    /\ AtEntry(FALSE)
    /\ \/ /\ ulog' = Append(ulog, U("open", idx, Combined, "fail"))
          /\ fault' = (fault \/ CanOpenFile)
          /\ UNCHANGED <<idx, remote>>
          /\ UpReturns(Err("open"))
       \/ \E sync_res \in {"ok", "fail"} :
              /\ CanOpenFile
              /\ ulog' = ulog \o << U("open", idx, Combined, "ok") >>
                              \o FileLines(4, sync_res, "ok")
                              \o << U("shutdown", idx, Combined, "ok") >>
              /\ remote' = Written(5, "ok")
              /\ idx' = idx + 1
              /\ UpGoes("up_walk")
              /\ UNCHANGED fault
    /\ UNCHANGED <<run, first>>
    /\ UNCHANGED sftp
    /\ UNCHANGED <<execRest, pathVars, sessVars, restVars>>

\* ssh.rs 212-230: open_with_flags(CREATE | TRUNCATE | WRITE); on Err a
\* warning and nothing else; on Ok File::open(..).unwrap(),
\* read_to_end(..).unwrap(), write_all(..).await.unwrap(),
\* let _ = sync_all().await, shutdown().await.unwrap().
UploadFile ==
    /\ AtEntry(FALSE)
    /\ \/ /\ ulog' = ulog \o << U("open", idx, Combined, "fail"),
                                U("log_warn", idx, Combined, "ok") >>
          /\ fault' = (fault \/ CanOpenFile)
          /\ UNCHANGED remote
          /\ idx' = idx + 1
          /\ UpGoes("up_walk")
       \/ \E n \in 1..5, sync_res \in {"ok", "fail"} :
              /\ CanOpenFile
              /\ FileCalls[n] \in Unwrapped
              /\ n <= 3 => sync_res = "ok"
              /\ ulog' = ulog \o << U("open", idx, Combined, "ok") >>
                              \o FileLines(n, "fail", sync_res)
              /\ remote' = Written(n, "fail")
              /\ Faulty
              /\ UNCHANGED idx
              /\ UpPanics(FileCalls[n])
       \/ \E sync_res \in {"ok", "fail"} :
              /\ CanOpenFile
              /\ ulog' = ulog \o << U("open", idx, Combined, "ok") >>
                              \o FileLines(4, sync_res, "ok")
                              \o << U("shutdown", idx, Combined, "ok") >>
              /\ remote' = Written(5, "ok")
              /\ idx' = idx + 1
              /\ UpGoes("up_walk")
              /\ UNCHANGED fault
    /\ UNCHANGED <<run, first>>
    /\ UNCHANGED sftp
    /\ UNCHANGED <<execRest, pathVars, sessVars, restVars>>

\* ssh.rs 237-239: after the last entry, sftp.close().await?; Ok(())
UploadClose ==
    /\ pc = "up_walk"
    /\ idx > Len(mapped.entries)
    /\ \/ /\ ulog' = Append(ulog, U("sftp_close", 0, <<>>, "ok"))
          /\ sftp' = "closed"
          /\ UpReturns(Ok(0))
          /\ UNCHANGED fault
       \/ /\ ulog' = Append(ulog, U("sftp_close", 0, <<>>, "fail"))
          /\ UNCHANGED sftp
          /\ UpReturns(Err("sftp_close"))
          /\ Faulty
    /\ NoRemoteChange
    /\ UNCHANGED idx
    /\ UNCHANGED <<execRest, pathVars, sessVars, restVars>>

\* Session::upload is called again on the session, with the same source
\* and destination, after a first call that walked the source and
\* returned Ok(()), and in which no call failed that could have succeeded.
UploadAgain ==
    /\ pc = "up_returned"
    /\ run = 1
    /\ up_result.kind = "ok"
    /\ idx > 0
    /\ ~fault
    /\ run' = 2
    /\ first' = [result |-> up_result, remote |-> remote]
    /\ fault' = FALSE
    /\ up_result' = NoResult
    /\ sftp' = "none"
    /\ idx' = 0
    /\ ulog' = <<>>
    /\ pc' = "up_canon"
    /\ UNCHANGED remote
    /\ UNCHANGED <<execRest, pathVars, sessVars, restVars>>

\* ------------------------------------------------------------------------
\* ec2.rs: EC2Impl, create_instances and describe_instance
\* ------------------------------------------------------------------------

\* ec2.rs 17
GLOBAL_TAG_FILTER == "hpc-launcher"

\* Values of the --tag option.
CustomTags == {"hpc-launcher", "team-a"}

NoTag == [some |-> FALSE, val |-> ""]

\* ec2.rs 284-290, and the one state left out of it.
NonTerminated == {"pending", "running", "shutting-down", "stopping", "stopped"}

InstanceStates == NonTerminated \cup {"terminated"}

NoListing == [some |-> FALSE, all |-> FALSE, ids |-> {}]

Ec2Init ==
    /\ epc = "new"
    /\ custom_tag = NoTag
    /\ instances = <<>>
    /\ listing = NoListing

Ec2Idle ==
    /\ epc = "idle"
    /\ custom_tag = NoTag
    /\ instances = <<>>
    /\ listing = NoListing

\* The state the EC2 actions do not touch.
nonEc2Vars == <<pathVars, execVars, sessVars, upVars, syncVars, cmdVars>>

\* ec2.rs 31-33: EC2Impl::new(client, custom_tag)
Ec2New ==
    /\ epc = "new"
    /\ epc' = "ready"
    /\ custom_tag' \in {NoTag} \cup { Some(t) : t \in CustomTags }
    /\ UNCHANGED <<instances, listing>>
    /\ UNCHANGED nonEc2Vars

\* ec2.rs 35-47: the value of the "application" tag create_tag writes.
create_tag == UnwrapOr(custom_tag, GLOBAL_TAG_FILTER)

\* ec2.rs 200-259: run_instances with create_tag's tag specification;
\* Err when the request fails or answers no instance; then create_tags
\* for the Name, whose Err is returned with the instance left running.
CreateInstances ==
    /\ epc = "ready"
    /\ Len(instances) < MaxInstances
    /\ \/ UNCHANGED instances
       \/ \E named \in BOOLEAN :
              instances' = Append(instances,
                  [tag |-> create_tag, state |-> "pending", mine |-> TRUE,
                   returned |-> named])
    /\ listing' = NoListing
    /\ UNCHANGED <<epc, custom_tag>>
    /\ UNCHANGED nonEc2Vars

\* Another user of the account launches an instance under a tag.
OtherInstance ==
    /\ epc = "ready"
    /\ Len(instances) < MaxInstances
    /\ \E t \in CustomTags :
          instances' = Append(instances,
              [tag |-> t, state |-> "pending", mine |-> FALSE, returned |-> FALSE])
    /\ listing' = NoListing
    /\ UNCHANGED <<epc, custom_tag>>
    /\ UNCHANGED nonEc2Vars

\* An instance moves through its life cycle.
InstanceMoves ==
    /\ epc = "ready"
    /\ \E i \in 1..Len(instances), s \in InstanceStates :
          /\ <<instances[i].state, s>> \in
                 { <<"pending", "running">>, <<"running", "stopping">>,
                   <<"stopping", "stopped">>, <<"stopped", "pending">>,
                   <<"running", "shutting-down">>, <<"stopped", "shutting-down">>,
                   <<"shutting-down", "terminated">> }
          /\ instances' = [instances EXCEPT ![i].state = s]
    /\ listing' = NoListing
    /\ UNCHANGED <<epc, custom_tag>>
    /\ UNCHANGED nonEc2Vars

\* ec2.rs 280-317: describe_instances filtered on tag:application =
\* GLOBAL_TAG_FILTER and on instance-state-name within statuses, an empty
\* statuses standing for the non-terminated states.
DescribeInstance ==
    /\ epc = "ready"
    /\ \E statuses \in {{}, {"running"}, {"terminated"}} :
          LET wanted == IF statuses = {} THEN NonTerminated ELSE statuses
          IN  listing' =
                  [some |-> TRUE,
                   all  |-> statuses = {},
                   ids  |-> { i \in 1..Len(instances) :
                                 /\ instances[i].tag = GLOBAL_TAG_FILTER
                                 /\ instances[i].state \in wanted }]
    /\ UNCHANGED <<epc, custom_tag, instances>>
    /\ UNCHANGED nonEc2Vars

Ec2Next == Ec2New \/ CreateInstances \/ OtherInstance \/ InstanceMoves \/ DescribeInstance

\* ------------------------------------------------------------------------
\* lib.rs: the command string of the Run command
\* ------------------------------------------------------------------------

\* Characters of an argument: one that needs no quoting, the space, and
\* the two characters escape treats on their own.
CmdChars == {"a", " ", "'", "!"}

\* shell_escape's unix whitelist, within CmdChars.
Whitelisted == {"a"}

RECURSIVE StrsOfLen(_)
StrsOfLen(n) ==
    IF n = 0 THEN { <<>> }
    ELSE { Append(s, c) : s \in StrsOfLen(n - 1), c \in CmdChars }

\* Argument lists of size at most n, an argument counting one more than
\* its length.
RECURSIVE ArgLists(_)
ArgLists(n) ==
    IF n <= 0 THEN { <<>> }
    ELSE { <<>> } \cup
         UNION { { <<s>> \o r : r \in ArgLists(n - 1 - Len(s)) }
                 : s \in UNION { StrsOfLen(k) : k \in 0..(n - 1) } }

RECURSIVE Flatten(_)
Flatten(ss) == IF ss = <<>> THEN <<>> ELSE Head(ss) \o Flatten(Tail(ss))

\* escape leaving every argument as it is.
escape_unquoted(s) == s

\* shell_escape::escape on unix (lib.rs 219): a non-empty argument of
\* whitelisted characters is left as it is; any other is put in single
\* quotes, with ' and ! each closed out of the quotes and backslashed.
escape(s) ==
    IF s # <<>> /\ \A i \in 1..Len(s) : s[i] \in Whitelisted
    THEN s
    ELSE <<"'">>
         \o Flatten([i \in 1..Len(s) |->
                        IF s[i] \in {"'", "!"}
                        THEN <<"'", "\\", s[i], "'">>
                        ELSE <<s[i]>>])
         \o <<"'">>

\* lib.rs 216-221: .map(escape).collect::<Vec<_>>().join(" ")
RECURSIVE JoinSpace(_)
JoinSpace(parts) ==
    IF parts = <<>> THEN <<>>
    ELSE IF Len(parts) = 1 THEN parts[1]
    ELSE parts[1] \o <<" ">> \o JoinSpace(Tail(parts))

BuildCommandLine(args) == JoinSpace([i \in 1..Len(args) |-> escape(args[i])])

\* The words a POSIX shell splits s into: outside quotes a space ends a
\* word, ' opens a quoted stretch and a backslash takes the next character
\* as it is; inside quotes everything up to the next ' is taken as it is.
\* i is the position, cur the word so far, inword whether a word is open,
\* quoted whether a quoted stretch is.
RECURSIVE ShellWords(_, _, _, _, _)
ShellWords(s, i, cur, inword, quoted) ==
    IF i > Len(s) THEN (IF inword THEN <<cur>> ELSE <<>>)
    ELSE IF quoted
         THEN IF s[i] = "'"
              THEN ShellWords(s, i + 1, cur, TRUE, FALSE)
              ELSE ShellWords(s, i + 1, Append(cur, s[i]), TRUE, TRUE)
    ELSE IF s[i] = "'" THEN ShellWords(s, i + 1, cur, TRUE, TRUE)
    ELSE IF s[i] = "\\"
         THEN IF i + 1 > Len(s)
              THEN ShellWords(s, i + 1, cur, TRUE, FALSE)
              ELSE ShellWords(s, i + 2, Append(cur, s[i + 1]), TRUE, FALSE)
    ELSE IF s[i] = " "
         THEN (IF inword THEN <<cur>> ELSE <<>>)
              \o ShellWords(s, i + 1, <<>>, FALSE, FALSE)
    ELSE ShellWords(s, i + 1, Append(cur, s[i]), TRUE, FALSE)

ShellSplit(s) == ShellWords(s, 1, <<>>, FALSE, FALSE)

CmdInit ==
    /\ cpc = "args"
    /\ cmd_args \in ArgLists(MaxCmdSize)
    /\ command = <<>>

CmdIdle ==
    /\ cpc = "idle"
    /\ cmd_args = <<>>
    /\ command = <<>>

\* lib.rs 214-223: the string handed to session.exec
BuildCommand ==
    /\ cpc = "args"
    /\ command' = BuildCommandLine(cmd_args)
    /\ cpc' = "sent"
    /\ UNCHANGED cmd_args
    /\ UNCHANGED <<pathVars, execVars, sessVars, upVars, syncVars, ec2Vars>>

CmdNext == BuildCommand

\* ------------------------------------------------------------------------
\* Specifications
\* ------------------------------------------------------------------------

ExecNext ==
    \/ Connect \/ RawMode
    \/ ExecOpenChannel \/ ExecTermSize \/ ExecRequestPty \/ ExecSendCommand
    \/ ExecOpenFds
    \/ StdinEof \/ StdinData \/ StdinErr
    \/ OnData \/ OnExtendedData \/ OnExitStatus \/ OnOther
    \/ SelectAllDisabled
    \/ RemoteSend \/ RemoteEnd
    \/ SessionEnds \/ SessionClose
    \/ UploadCanonicalize \/ UploadOpenSftp \/ UploadCheckDst
    \/ UploadCalcPrefix \/ UploadCanonDst \/ UploadBiject
    \/ UploadDir \/ UploadFile \/ UploadErrEntry \/ UploadClose

\* The Run and Upload commands (lib.rs 170-225), from Session::connect on.
Init == ExecInit /\ PathIdle /\ SessInit /\ UploadInit /\ Ec2Idle /\ CmdIdle

Spec == Init /\ [][ExecNext]_vars

\* Spec with the channel branch of select! taken in the end whenever a
\* message waits: tokio's select! polls its ready branches in random order,
\* so stdin cannot keep the channel branch from running for ever.
SpecFair ==
    /\ Init
    /\ [][ExecNext]_vars
    /\ WF_vars(OnData)
    /\ WF_vars(OnExtendedData)
    /\ WF_vars(OnExitStatus)
    /\ WF_vars(OnOther)

\* The path mapping on its own, over every source root, destination and
\* tree of the bounds.
InitPath == PathInit /\ ExecIdle /\ SessInit /\ UploadInit /\ Ec2Idle /\ CmdIdle

SpecPath == InitPath /\ [][PathNext]_vars

\* Session::upload called twice on an established session.
Established ==
    /\ pc = "up_canon"
    /\ session = [exists |-> TRUE, authenticated |-> TRUE]
    /\ connect_result = Connected("ok", "accepted")
    /\ exec_result = NoResult
    /\ stdin_closed = FALSE
    /\ code = NoCode
    /\ chan = <<>>
    /\ chan_ended = FALSE
    /\ stdout = <<>>
    /\ stderr = <<>>
    /\ log = <<>>
    /\ sent = <<>>
    /\ iters = 0
    /\ eof_at = -1
    /\ io_err = "none"
    /\ err_iter = -1

InitSync == Established /\ PathIdle /\ SessInit /\ UploadInit /\ Ec2Idle /\ CmdIdle

SyncNext ==
    \/ UploadCanonicalize \/ UploadOpenSftp \/ UploadCheckDst
    \/ UploadCalcPrefix \/ UploadCanonDst \/ UploadBiject
    \/ UploadDir \/ UploadFile \/ UploadErrEntry \/ UploadClose
    \/ UploadAgain

SpecSync == InitSync /\ [][SyncNext]_vars

\* EC2Impl on an account: instances created, moving and listed.
InitEc2 == Ec2Init /\ ExecIdle /\ PathIdle /\ SessInit /\ UploadInit /\ CmdIdle

SpecEc2 == InitEc2 /\ [][Ec2Next]_vars

\* The command string of the Run command, over the argument lists of the
\* bound.
InitCmd == CmdInit /\ ExecIdle /\ PathIdle /\ SessInit /\ UploadInit /\ Ec2Idle

SpecCmd == InitCmd /\ [][CmdNext]_vars

\* ------------------------------------------------------------------------
\* Claims about the path mapping (checked under SpecPath)
\* ------------------------------------------------------------------------

\* The last component of a path: the name of the source directory.
Basename(s) == Components(s)[Len(Components(s))]

\* dst_folder followed by exactly one separator.
DstWithSep ==
    IF dst_folder[Len(dst_folder)] = SEP THEN dst_folder ELSE dst_folder \o <<SEP>>

Mapped(i) == mapped.entries[i]

\* C1: for every source root S other than the filesystem root, at any depth,
\* and every destination D, calc_prefix then biject_paths map the root entry
\* S to D/<basename(S)> and every entry S/a/b to D/<basename(S)>/a/b.
C1_MapsUnderBasename ==
    (ppc \in {"done", "panicked"} /\ Components(src_path) # <<>>) =>
        /\ ppc = "done"
        /\ \A i \in 1..Len(tree) :
              Components(Mapped(i).transformed)
                  = Components(dst_folder) \o <<Basename(src_path)>> \o tree[i].rel

\* C2: with the filesystem root as source root calc_prefix returns the empty
\* prefix, biject_paths does not panic, and every walked entry is mapped to
\* the destination followed by the entry's own path without its leading
\* separator (nothing else is stripped).
C2_RootSourceNoStrip ==
    (src_path = <<SEP>> /\ ppc # "prefix") =>
        /\ prefix = <<>>
        /\ ppc # "panicked"
        /\ ppc = "done" =>
              \A i \in 1..Len(tree) :
                  /\ Mapped(i).local_pth = ToStr(tree[i].rel)
                  /\ Mapped(i).transformed = DstWithSep \o Tail(Mapped(i).local_pth)

\* C2's case: the filesystem root uploaded to /h, where /a/h lands at /h/a/h.
C2_Witness ==
    /\ ppc = "done"
    /\ src_path = <<SEP>>
    /\ dst_folder = <<"/", "h">>
    /\ Len(mapped.entries) = 4
    /\ Mapped(3).local_pth = <<"/", "a", "/", "h">>
    /\ Mapped(3).transformed = <<"/", "h", "/", "a", "/", "h">>

\* C3: two distinct local entries of one walk never map to the same remote
\* path (paths compared as Path compares them, by components).
C3_Injective ==
    ppc = "done" =>
        \A i, j \in 1..Len(tree) :
            Mapped(i).local_pth # Mapped(j).local_pth =>
                Components(Mapped(i).transformed) # Components(Mapped(j).transformed)

\* ------------------------------------------------------------------------
\* Claims about Session::connect and Session::exec (checked under Spec)
\* ------------------------------------------------------------------------

\* The messages channel.wait() has yielded, in order.
ReceivedMsgs == SubSeq(sent, 1, Received)

\* The payload bytes of the messages of type t, in order.
RECURSIVE BytesOf(_, _)
BytesOf(msgs, t) ==
    IF msgs = <<>> THEN <<>>
    ELSE (IF Head(msgs).type = t THEN <<Head(msgs).val>> ELSE <<>>)
         \o BytesOf(Tail(msgs), t)

HasExitStatus(msgs) == \E i \in 1..Len(msgs) : msgs[i].type = "ExitStatus"

\* The calls of the event loop that can fail.
LoopCalls ==
    {"stdin_read", "channel_data", "channel_eof", "stdout_write",
     "stdout_flush", "stderr_write", "stderr_flush"}

\* C4: when exec returns an exit code, every Data and ExtendedData byte the
\* remote sent for the command, before or after the exit-status message, has
\* been written to stdout and stderr.
C4_AllOutputDelivered ==
    exec_result.kind = "ok" =>
        /\ stdout = BytesOf(sent, "Data")
        /\ stderr = BytesOf(sent, "ExtendedData")

\* C5: after local stdin has read end-of-file, and without an I/O error,
\* exec is still in the event loop until the exit-status message is received
\* (or the message stream has ended), every message received so far has been
\* written to stdout or stderr, and exec returns only with the exit status.
C5_ServesChannelAfterEof ==
    (eof_at >= 0 /\ io_err = "none") =>
        /\ stdout = BytesOf(ReceivedMsgs, "Data")
        /\ stderr = BytesOf(ReceivedMsgs, "ExtendedData")
        /\ pc \in {"loop", "exec_returned", "panicked"}
        /\ pc = "exec_returned" =>
              /\ exec_result.kind = "ok"
              /\ sent[Received].type = "ExitStatus"
        /\ pc = "panicked" =>
              /\ chan_ended /\ chan = <<>>
              /\ ~HasExitStatus(ReceivedMsgs)

\* C5's case: stdin closed first, output arrived after it and was written,
\* and exec returned on the exit status.
C5_Witness ==
    /\ eof_at >= 0
    /\ exec_result.kind = "ok"
    /\ \E k \in (eof_at + 1)..Received : sent[k].type = "Data"
    /\ \E k \in (eof_at + 1)..Received : sent[k].type = "ExtendedData"
    /\ stdout = BytesOf(ReceivedMsgs, "Data")
    /\ stderr # <<>>

\* C6: exec returns Ok(code) only on receiving an ExitStatus message, with
\* that message's exit_status, zero or not; without an I/O error an
\* ExitStatus always gives Ok; no other message ends the loop.
C6_ReturnsOnlyOnExitStatus ==
    /\ exec_result.kind = "ok" =>
          /\ Received >= 1
          /\ sent[Received].type = "ExitStatus"
          /\ exec_result.code = sent[Received].val
          /\ ~HasExitStatus(SubSeq(sent, 1, Received - 1))
    /\ (HasExitStatus(ReceivedMsgs) /\ io_err = "none") => exec_result.kind = "ok"
    /\ (iters > 0 /\ io_err = "none" /\ ~HasExitStatus(ReceivedMsgs)) =>
          \/ pc = "loop"
          \/ pc = "panicked" /\ stdin_closed /\ chan_ended /\ chan = <<>>

\* C6's case: Eof and data were received and did not end the loop, then a
\* non-zero exit status was returned as Ok.
C6_Witness ==
    /\ exec_result = Ok(1)
    /\ Received = 3
    /\ sent[1].type \in {"Eof", "Close"}
    /\ sent[2].type = "Data"

\* C7: channel.eof is called at most once, and after it stdin is not read
\* and no stdin data is sent.
C7_EofOnce ==
    /\ CountOf(log, "eof") <= 1
    /\ \A i, j \in 1..Len(log) :
          (i < j /\ log[i] = "eof") => log[j] \notin {"read", "data", "eof"}

\* C7's case: stdin data was forwarded, stdin closed and eof was sent, then
\* messages were received until the exit status.
C7_Witness ==
    /\ CountOf(log, "data") >= 1
    /\ CountOf(log, "eof") = 1
    /\ eof_at >= 0
    /\ Received > eof_at
    /\ exec_result.kind = "ok"

\* C8: a failure of terminal_size or of request_pty does not make exec
\* return an error.
C8_PtyFailureNotFatal ==
    io_err \in {"terminal_size", "request_pty"} => exec_result.kind # "err"

\* C9: a failed call in the event loop makes exec return that error in the
\* same iteration: no further iteration runs.
C9_IoErrorReturnsAtOnce ==
    io_err \in LoopCalls =>
        /\ pc = "exec_returned"
        /\ exec_result = Err(io_err)
        /\ iters = err_iter

\* C9's case: the flush of stdout failed with messages still in flight.
C9_Witness ==
    /\ io_err = "stdout_flush"
    /\ exec_result = Err("stdout_flush")
    /\ chan # <<>>
    /\ ~stdin_closed

\* C10: a Session exists, and a sub-channel is asked for, only on a
\* connection whose key the remote accepted.
C10_SessionOnlyIfKeyAccepted ==
    /\ session.exists => session.authenticated
    /\ CountOf(log, "open") > 0 => session.authenticated

\* C11: when the transport connection cannot be established or the
\* identity file cannot be loaded, connect returns an error to its caller
\* and does not panic.
C11_ConnectFailureIsError ==
    connect_result.cause \in {"transport", "identity"} =>
        /\ connect_result.kind = "err"
        /\ pc # "panicked"

\* C12: a second call of close, after a first that returned success,
\* returns success too and leaves the connection as the first left it.
C12_CloseIdempotent ==
    (Len(close_log) >= 2 /\ close_log[1] = "ok") => close_log[2] = "ok"

\* C13: a sub-channel asked for on a connection that has been closed is
\* answered by an error returned to the caller, on the exec path and on
\* the transfer path; neither panics.
C13_OpenOnClosedIsError ==
    conn_at_open = "down" =>
        /\ pc # "panicked"
        /\ exec_result.kind = "err" \/ up_result.kind = "err"

\* upload made the call op and it answered res.
HasLine(op, res) == \E i \in 1..Len(ulog) : ulog[i].op = op /\ ulog[i].res = res

\* The requests upload sends to the remote.
RemoteOps == {"channel_open", "request_subsystem", "sftp_init", "metadata",
              "canonicalize_dst", "mkdir", "open", "write", "sync", "shutdown",
              "sftp_close"}

\* The loop body ran for walk entry e.
Attempted(e) ==
    \E j \in 1..Len(ulog) :
        ulog[j].ent = e /\ ulog[j].op \in {"mkdir", "open", "walk_error"}

\* C14: when the source path cannot be canonicalized upload returns an
\* error and has sent nothing to the remote: no transfer sub-channel, no
\* metadata lookup, no create-directory, no file write.
C14_NoRemoteOpAfterBadSource ==
    HasLine("canonicalize_src", "fail") =>
        /\ pc = "up_returned"
        /\ up_result = Err("canonicalize_src")
        /\ sftp = "none"
        /\ conn_at_open = "none"
        /\ \A i \in 1..Len(ulog) : ulog[i].op \notin RemoteOps

\* C14's case: canonicalize failed and upload has returned.
C14_Witness ==
    /\ HasLine("canonicalize_src", "fail")
    /\ up_result.kind = "err"
    /\ session.authenticated

C16_MetadataErrorAborts ==
    HasLine("metadata", "error") => up_result.kind = "err"

\* C17: a failed create-directory never aborts the upload: the walk moves
\* on, and every entry after it is attempted, or still to come, or was cut
\* off by the panic of a later file's own call.
C17_MkdirFailureNeverAborts ==
    \A i \in 1..Len(ulog) :
        (ulog[i].op = "mkdir" /\ ulog[i].res = "fail") =>
            /\ up_result.err # "mkdir"
            /\ idx > ulog[i].ent
            /\ \A e \in (ulog[i].ent + 1)..Len(mapped.entries) :
                  \/ Attempted(e)
                  \/ pc = "up_walk" /\ idx <= e
                  \/ /\ pc = "panicked"
                     /\ up_result.err \in Unwrapped
                     /\ idx < e
                     /\ Attempted(idx)

\* C17's case: the create-directory of the sub-directory failed, the file
\* in it and the file beside it were written, and upload returned Ok.
C17_Witness ==
    /\ \E i \in 1..Len(ulog) :
          ulog[i].op = "mkdir" /\ ulog[i].res = "fail" /\ ulog[i].ent = 2
    /\ \E j \in 1..Len(ulog) : ulog[j] = U("write", 3, mapped.entries[3].transformed, "ok")
    /\ \E j \in 1..Len(ulog) : ulog[j] = U("write", 4, mapped.entries[4].transformed, "ok")
    /\ up_result = Ok(0)

\* upload's failed calls so far are failed opens of remote files only.
OnlyOpenFailures ==
    \A j \in 1..Len(ulog) : ulog[j].res = "fail" => ulog[j].op = "open"

\* C18: when opening a remote file fails upload logs a warning, makes no
\* write for that file and goes on to the next entry; with no other
\* failure upload does not end in an error.
C18_OpenFailureSkipsFile ==
    \A i \in 1..Len(ulog) :
        (ulog[i].op = "open" /\ ulog[i].res = "fail") =>
            /\ i < Len(ulog)
            /\ ulog[i + 1] = U("log_warn", ulog[i].ent, ulog[i].path, "ok")
            /\ \A j \in 1..Len(ulog) :
                  ulog[j].ent = ulog[i].ent => ulog[j].op \in {"open", "log_warn"}
            /\ idx > ulog[i].ent
            /\ up_result.err # "open"
            /\ OnlyOpenFailures =>
                  /\ up_result.kind \in {"none", "ok"}
                  /\ pc \in {"up_walk", "up_returned"}
                  /\ pc = "up_returned" =>
                        \A e \in 1..Len(mapped.entries) : Attempted(e)

\* C18's case: the open of the file in the sub-directory failed, the file
\* after it was written, and upload returned Ok.
C18_Witness ==
    /\ \E i \in 1..Len(ulog) :
          ulog[i].op = "open" /\ ulog[i].res = "fail" /\ ulog[i].ent = 3
    /\ \E j \in 1..Len(ulog) : ulog[j] = U("write", 4, mapped.entries[4].transformed, "ok")
    /\ up_result = Ok(0)

\* C19: when the write of one remote file fails, upload does not stop: the
\* other files are still written and upload returns success.
C19_WriteFailureNotFatal ==
    HasLine("write", "fail") =>
        /\ pc # "panicked"
        /\ up_result.kind \in {"none", "ok"}

\* C20: upload ends unsuccessfully only when the source path cannot be
\* resolved or the destination exists and is not a directory.
C20_OnlyTwoFatalFailures ==
    up_result.kind \in {"err", "panic"} =>
        up_result.err \in {"canonicalize_src", "dst_not_dir"}

\* The walk entries that are files the walk could read.
FileEntries ==
    { i \in 1..Len(mapped.entries) :
          ~mapped.entries[i].is_err /\ ~mapped.entries[i].is_dir }

\* The remote holds, at the path entry i maps to, a file with the bytes of
\* the local file.
Mirrored(i) ==
    /\ KindAt(remote, Components(Mapped(i).transformed)) = "file"
    /\ DataAt(remote, Components(Mapped(i).transformed)) = LocalData(Mapped(i).local_pth)

\* The second call of upload has returned or panicked, and no call of it
\* failed that the remote state left by the first allowed to succeed.
SecondRunDone == run = 2 /\ pc \in {"up_returned", "panicked"} /\ ~fault

\* C21: upload run a second time, on the unchanged source and the remote
\* state the first run left, returns no error and leaves the remote state
\* as the first run left it: every remote file holds the bytes of the local
\* file mapped to it, and every local file is there unless a directory is
\* in its place.
C21_SecondRunIdempotent ==
    SecondRunDone =>
        /\ up_result = Ok(0)
        /\ remote = first.remote
        /\ \A f \in remote :
              f.kind = "file" =>
                  \E i \in FileEntries :
                      /\ Components(Mapped(i).transformed) = f.path
                      /\ LocalData(Mapped(i).local_pth) = f.data
        /\ \A i \in FileEntries :
              \/ Mirrored(i)
              \/ KindAt(remote, Components(Mapped(i).transformed)) = "dir"

\* C21's case: the second run found the directories in place, wrote both
\* files again and returned Ok.
C21_Witness ==
    /\ SecondRunDone
    /\ up_result = Ok(0)
    /\ HasLine("mkdir", "fail")
    /\ HasLine("write", "ok")
    /\ Len(Components(src_path)) = 2
    /\ \A i \in FileEntries : Mirrored(i)
    /\ FileEntries # {}

\* The remote paths upload asked op for.
PathsOf(op) == { Components(ulog[i].path) : i \in { k \in 1..Len(ulog) : ulog[k].op = op } }

\* upload's first call went through the whole walk and returned.
WalkedAndReturned ==
    run = 1 /\ pc = "up_returned" /\ idx > 0 /\ idx > Len(mapped.entries)

\* The source root is a directory proj below some other directory, and
\* the walk read all of proj, sub, sub/b.txt and a.txt.
ProjScenario ==
    /\ Len(Components(src_path)) >= 2
    /\ \A i \in 1..Len(tree) : ~tree[i].err

ErrEntries == { i \in 1..Len(mapped.entries) : mapped.entries[i].is_err }

\* C23: an error of the walk on one entry is an Err item in its place in
\* what biject_paths returns; upload logs it, does nothing else for that
\* entry and goes on: every entry after it is attempted, or still to come,
\* or was cut off by the panic of a file's own call.
C23_WalkErrorPerEntry ==
    idx > 0 =>
        /\ Len(mapped.entries) = Len(tree)
        /\ \A i \in 1..Len(tree) : mapped.entries[i].is_err = tree[i].err
        /\ \A i \in ErrEntries :
              /\ up_result.err # "walk"
              /\ idx > i =>
                    /\ \E k \in 1..Len(ulog) : ulog[k] = U("log_error", i, <<>>, "ok")
                    /\ \A k \in 1..Len(ulog) :
                          ulog[k].ent = i => ulog[k].op \in {"walk_error", "log_error"}
              /\ \A e \in (i + 1)..Len(mapped.entries) :
                    \/ Attempted(e)
                    \/ pc = "up_walk" /\ idx <= e
                    \/ /\ pc = "panicked"
                       /\ up_result.err \in Unwrapped
                       /\ idx < e

\* C23's case: the walk could not read /a/h; the error was logged, the
\* file after it was written and upload returned Ok.
C23_Witness ==
    /\ 3 \in ErrEntries
    /\ \E k \in 1..Len(ulog) : ulog[k] = U("log_error", 3, <<>>, "ok")
    /\ \E k \in 1..Len(ulog) : ulog[k] = U("write", 4, Mapped(4).transformed, "ok")
    /\ up_result = Ok(0)

\* C24: the command string is the arguments, each escaped on its own,
\* joined by one space in their order, and a shell splits it back into
\* the arguments.
C24_CommandRoundTrip ==
    cpc = "sent" =>
        /\ command = JoinSpace([i \in 1..Len(cmd_args) |-> escape(cmd_args[i])])
        /\ ShellSplit(command) = cmd_args

\* C24's case: two arguments, one a space and one with a quote in it.
C24_Witness ==
    /\ cpc = "sent"
    /\ Len(cmd_args) = 2
    /\ cmd_args[1] = <<" ">>
    /\ cmd_args[2] = <<"'">>
    /\ ShellSplit(command) = cmd_args

\* C25: describe_instance called with an empty status list returns every
\* instance that this EC2Impl's create_instances created and that is not
\* terminated, with or without a custom tag.
C25_ListsWhatItCreated ==
    (listing.some /\ listing.all) =>
        \A i \in 1..Len(instances) :
            (instances[i].mine /\ instances[i].state # "terminated")
                => i \in listing.ids

\* C26: exec opens the sub-channel, requests the PTY, sends the command
\* and only then pumps I/O: the command is sent once, after the PTY
\* request, and nothing is read from stdin, forwarded or written out
\* before it.
C26_ExecOrder ==
    /\ CountOf(log, "exec") <= 1
    /\ \A j \in 1..Len(log) :
          /\ log[j] = "open" => j = 1
          /\ log[j] = "pty" => j = 2 /\ log[1] = "open"
          /\ log[j] = "exec" => j = 3 /\ log[1] = "open" /\ log[2] = "pty"
          /\ log[j] \in {"read", "data", "eof"} => j > 3 /\ log[3] = "exec"
    /\ (pc = "loop" \/ iters > 0 \/ stdout # <<>> \/ stderr # <<>>) =>
          Len(log) >= 3 /\ log[3] = "exec"

\* C26's case: stdin data was forwarded and output written in the loop.
C26_Witness ==
    /\ pc = "loop"
    /\ CountOf(log, "data") >= 1
    /\ stdout # <<>>
    /\ SubSeq(log, 1, 3) = <<"open", "pty", "exec">>

\* C27: an upload that has opened the transfer sub-channel has closed it
\* when it returns, on every return path.
C27_SftpClosedOnReturn ==
    (pc = "up_returned" /\ HasLine("sftp_init", "ok")) =>
        /\ sftp = "closed"
        /\ ulog[Len(ulog)].op = "sftp_close"

\* C28: in the event loop, once an exit-status message waits on the
\* channel, exec returns in the end, whether or not stdin is closed and
\* whatever stdin still delivers.
C28_ReturnsAfterExitStatus ==
    (pc = "loop" /\ HasExitStatus(chan)) ~> (pc = "exec_returned")

\* C28's case: the exit status waits behind another message while stdin is
\* open and has delivered data.
C28_Witness ==
    /\ pc = "loop"
    /\ Len(chan) >= 2
    /\ chan[2].type = "ExitStatus"
    /\ ~stdin_closed
    /\ CountOf(log, "data") >= 1

\* C29: the event loop is never in a state where no branch of select! is
\* enabled: stdin closed and the channel's message stream ended while exec
\* has not returned.
C29_SomeBranchEnabled ==
    /\ ~(pc = "loop" /\ stdin_closed /\ chan_ended /\ chan = <<>>)
    /\ exec_result # Panic("select")

\* C30: for every entry below the source root, the create-directory
\* request for the parent of its remote path is issued before the entry's
\* own create-directory or open request.
C30_ParentCreatedFirst ==
    \A k \in 1..Len(ulog) :
        (ulog[k].op \in {"mkdir", "open"} /\ ulog[k].ent > 1) =>
            \E j \in 1..(k - 1) :
                /\ ulog[j].op = "mkdir"
                /\ Components(ulog[j].path) = Front(Components(ulog[k].path))

=============================================================================
